---- MODULE Spec2Model ----
(***************************************************************************)
(* The showcqt audio-to-video filter (libavfilter/avf_showcqt.c): the      *)
(* initialisation (config_output), the sliding-window sample scheduler    *)
(* (filter_frame, request_frame), the frame gate of plot_cqt and the      *)
(* dual-real FFT unpacking step of plot_cqt.                               *)
(*                                                                         *)
(* Samples are modelled by their identity: the interleaved float at        *)
(* element e of the whole stream is the token e + 1, so a window slot      *)
(* tells which stream sample (and which channel) it holds; 0 is silence    *)
(* written by the filter itself (memset).                                  *)
(***************************************************************************)
EXTENDS Integers, Sequences, FiniteSets, TLC

\* ------------------------------------------------------------ constants

VIDEO_HEIGHT == 1080
FONT_HEIGHT == 32
SPECTOGRAM_HEIGHT == (VIDEO_HEIGHT - FONT_HEIGHT) \div 2
SPECTOGRAM_START == VIDEO_HEIGHT - SPECTOGRAM_HEIGHT

\* AVERROR(EINVAL), AVERROR(ENOMEM), AVERROR_EOF
AVERROR_EINVAL == -22
AVERROR_ENOMEM == -12
AVERROR_EOF == -541478725
\* AVERROR(EOF) with the C library's EOF (-1): the value filter_frame returns
\* after the drain
AVERROR_OF_STDIO_EOF == 1

\* a NULL AVFrame pointer, as the nb_samples of "no frame"
NULL == -1

\* the sample rates query_formats accepts, and the option ranges
SampleRates == {44100, 48000}
FpsRange == 10..100
CountRange == 1..30
\* timeclamp in hundredths of a second: a grid on the option's [0.1, 1.0]
TimeClamps == {10, 17, 100}

\* COEFF_CLAMP (1.0e-4) and the coeffclamp option, as exact fractions: a grid
\* on the option's [0.1, 10] with its default 1
COEFF_CLAMP == [num |-> 1, den |-> 10000]
CoeffClamps == {[num |-> 1, den |-> 10], [num |-> 1, den |-> 1],
                [num |-> 10, den |-> 1]}

\* ------------------------------------------------------------ bounds

\* the scaled-down configurations of the scheduler specification: like the
\* accepted ones they keep step <= rate * timeclamp <= fft_len, and they
\* hold steps below, at and above fft_len / 2
ScaledRates == {12, 24}
ScaledFps == {2, 3, 4}
ScaledCounts == {1, 2, 3}
ScaledTimeClamps == {50}
\* the longest stream fed, in stereo samples
MaxT == 9
\* the most frames one request_frame call receives from upstream
MaxReq == 2
\* the most downstream failures in one run
MaxFail == 1
\* amplitudes of the FFT round trip: integers in -MaxAmp..MaxAmp
MaxAmp == 1
\* FFT sizes of the round trip whose twiddles are integers (N = 2, 4)
RoundTripBits == {1, 2}
\* the kernel columns sparsified: fft_len = 2, 4, and real parts three orders
\* of magnitude apart, so that a nonzero prefix falls under the clamp and the
\* partial sum can meet the threshold exactly (1 of a total of 1000)
KernelBits == {1, 2}
\* the picture's width in pixels, scaled down from VIDEO_WIDTH; the ring keeps
\* its SPECTOGRAM_HEIGHT rows
RingWidth == 2
\* the most evaluations of the ring specification: past one turn of the ring
MaxRingEvals == 530
\* its counts, and the padding in bytes a picture's lines may carry
RingCounts == {1, 3, 30}
RingPaddings == {0, 2}
CoeffValues == {-2000, -1, 0, 1, 2, 998}

\* the codes ff_filter_frame may fail with
ErrCodes == {AVERROR_ENOMEM, AVERROR_EOF}

\* ------------------------------------------------------------ state

VARIABLES
    rate,        \* inlink->sample_rate
    s,           \* the ShowCQTContext
    pc,          \* "init", "configured", "failed"
    cfgRet,      \* what config_output returned
    fed,         \* stereo samples delivered by upstream so far
    eof,         \* request_frame has returned AVERROR_EOF
    evals,       \* history: one record per call of plot_cqt
    sent,        \* history: one record per frame handed to ff_filter_frame
    lastCall,    \* history: the last entry point the host called
    rt,          \* the FFT round trip of plot_cqt's unpacking step
    kn,          \* one column of the kernel in config_output's sparsification
    sg           \* the spectrogram ring and the picture plot_cqt draws it into

vars == <<rate, s, pc, cfgRet, fed, eof, evals, sent, lastCall, rt, kn, sg>>

Zero == [re |-> 0, im |-> 0]

Pow2(b) == 2 ^ b

\* ceil(log2(num/den)) for num/den >= 1: the least b with 2^b >= num/den
RECURSIVE CeilLog2From(_, _, _)
CeilLog2From(num, den, b) ==
    IF Pow2(b) * den >= num THEN b ELSE CeilLog2From(num, den, b + 1)

\* s->fft_bits = ceil(log2(rate * timeclamp)), timeclamp = tc / 100
FftBits(r, tc) == CeilLog2From(r * tc, 100, 0)

fft_len(c) == Pow2(c.fft_bits)

\* rate % (s->fps * s->count)
NotDivisibleByFps(r, fps, count) == r % fps # 0
NotDivisibleSquared(r, fps, count) == r % (fps * count * count) # 0
NotDivisible(r, fps, count) == r % (fps * count) # 0

\* int step = inlink->sample_rate / (s->fps * s->count)
Step(r, c) == r \div (c.fps * c.count)


\* ------------------------------------------------------------ plot_cqt

\* if (!s->spectogram_count): this evaluation draws and emits a frame
EmitsOnLast(c) == c.spectogram_count = c.count - 1
EmitsFrame(c) == c.spectogram_count = 0

\* s->outpicref->pts = s->frame_count
FramePts(c) == c.frame_count

\* s->frame_count++
FrameCountKept(c) == c.frame_count
NextFrameCount(c) == c.frame_count + 1

\* s->spectogram_count = (s->spectogram_count + 1) % s->count
NextSpectogramCount(c) == (c.spectogram_count + 1) % c.count

\* s->spectogram_index = (s->spectogram_index + SPECTOGRAM_HEIGHT - 1)
\*                           % SPECTOGRAM_HEIGHT
NextSpectogramIndex(c) ==
    (c.spectogram_index + SPECTOGRAM_HEIGHT - 1) % SPECTOGRAM_HEIGHT

\* The ring s->spectogram[SPECTOGRAM_HEIGHT][w][3] and the picture's plane
\* data[0] are byte arrays indexed by byte offset; w is the picture's width.
\* The colours an evaluation computes stand as tokens that name the
\* evaluation e (0 for the first), the column and the channel; no token is 0,
\* the byte of the cleared ring.
ResultRow(e, w) == [b \in 0..(w * 3 - 1) |-> e * w * 3 + b + 1]

\* spectogram[spectogram_index][x][0..2] = result[x][0..2] + 0.5f, all x
RecordRow(spectogram, index, row, w) ==
    [i \in DOMAIN spectogram |->
        IF i \div (w * 3) = index THEN row[i % (w * 3)] ELSE spectogram[i]]

\* memcpy(dst + d0, src + s0, len)
memcpy(dst, d0, src, s0, len) ==
    [i \in DOMAIN dst |->
        IF i >= d0 /\ i < d0 + len THEN src[s0 + (i - d0)] ELSE dst[i]]

\* the contiguous picture without the second copy
DrawContiguousFrontOnly(data, spectogram, index, w) ==
    LET total_length == w * SPECTOGRAM_HEIGHT * 3
        back_length == w * index * 3
        start == SPECTOGRAM_START * w * 3
    IN memcpy(data, start, spectogram, index * w * 3, total_length - back_length)

\* linesize == VIDEO_WIDTH * 3: the rows from spectogram_index to the ring's
\* end in one copy, then the rows before spectogram_index in another
DrawContiguous(data, spectogram, index, w) ==
    LET total_length == w * SPECTOGRAM_HEIGHT * 3
        back_length == w * index * 3
        start == SPECTOGRAM_START * w * 3
        front == memcpy(data, start, spectogram, index * w * 3,
                        total_length - back_length)
    IN IF back_length # 0
       THEN memcpy(front, start + total_length - back_length, spectogram, 0,
                   back_length)
       ELSE front

\* the other linesizes: for each y, one copy of w * 3 bytes from ring row
\* (spectogram_index + y) % SPECTOGRAM_HEIGHT to line SPECTOGRAM_START + y;
\* the copies write disjoint bytes
DrawStrided(data, spectogram, index, w, linesize) ==
    [i \in DOMAIN data |->
        LET y == (i \div linesize) - SPECTOGRAM_START
            b == i % linesize
        IN IF y >= 0 /\ y < SPECTOGRAM_HEIGHT /\ b < w * 3
           THEN spectogram[((index + y) % SPECTOGRAM_HEIGHT) * w * 3 + b]
           ELSE data[i]]

\* drawing spectogram/sonogram
DrawSpectogram(data, spectogram, index, w, linesize) ==
    IF linesize = w * 3
    THEN DrawContiguous(data, spectogram, index, w)
    ELSE DrawStrided(data, spectogram, index, w, linesize)

\* plot_cqt on the ring and the picture: the row is recorded, the picture is
\* drawn when a frame is due, the counters advance. The bars and the font
\* rows above the spectrogram are not drawn here.
PlotRing(g) ==
    LET row == ResultRow(g.nevals, g.width)
        spectogram == RecordRow(g.spectogram, g.spectogram_index, row, g.width)
        emit == EmitsFrame(g)
    IN [g EXCEPT
          !.spectogram = spectogram,
          !.data = IF emit
                   THEN DrawSpectogram(@, spectogram, g.spectogram_index,
                                       g.width, g.linesize)
                   ELSE @,
          !.frame_count = IF emit THEN NextFrameCount(g) ELSE @,
          !.spectogram_count = NextSpectogramCount(g),
          !.spectogram_index = NextSpectogramIndex(g),
          !.emitted = emit,
          !.nevals = @ + 1,
          !.rows = Append(@, row)]

\* ret = ff_filter_frame(outlink, ...): the n-th frame handed downstream
\* in this call of the host fails when the downstream says so
Downstream(down, n) == IF n = down.failAt THEN down.code ELSE 0

\* One call of plot_cqt on the run record m (the context m.s, the
\* histories, the downstream's answers m.down for this call of the host).
\* The transform and the drawing do not change the scheduler's state; the
\* window the transform reads is recorded in the history.
plot_cqt(m) ==
    LET c == m.s
        emit == EmitsFrame(c)
        n == m.calls + 1
        ret == IF emit THEN Downstream(m.down, n) ELSE 0
        c1 == IF emit
              THEN [c EXCEPT !.req_fullfilled = 1, !.frame_count = NextFrameCount(c)]
              ELSE c
        c2 == [c1 EXCEPT !.spectogram_count = NextSpectogramCount(c),
                         !.spectogram_index = NextSpectogramIndex(c)]
    IN [m EXCEPT
          !.s = c2,
          !.evals = Append(@, [window |-> c.fft_data,
                               fill |-> c.remaining_fill,
                               emitted |-> emit,
                               pts |-> IF emit THEN FramePts(c) ELSE -1]),
          !.sent = IF emit THEN Append(@, [pts |-> FramePts(c), ret |-> ret]) ELSE @,
          !.calls = IF emit THEN n ELSE @,
          !.ret = ret,
          !.derr = IF ret < 0 /\ @ = 0 THEN ret ELSE @,
          !.errAt = IF ret < 0 /\ m.derr = 0 THEN Len(m.evals) + 1 ELSE @]

\* ------------------------------------------------------------ filter_frame

\* audio_data[e] of a frame whose first sample is stream sample first
AudioData(first, e) == 2 * first + e + 1

\* for (m = 0; m < n; m++) { fft_data[j+m].re = audio_data[2*(i+m)];
\*                           fft_data[j+m].im = audio_data[2*(i+m)+1]; }
CopySamples(data, j, i, n, first) ==
    [x \in DOMAIN data |->
        IF x >= j /\ x < j + n
        THEN [re |-> AudioData(first, 2 * (i + (x - j))),
              im |-> AudioData(first, 2 * (i + (x - j)) + 1)]
        ELSE data[x]]

\* for (x = 0; x < fft_len - step; x++) fft_data[x] = fft_data[x + step]
ShiftWindowShort(data, N, step) ==
    [x \in DOMAIN data |-> IF x < N - step THEN data[x + step - 1] ELSE data[x]]
ShiftWindow(data, N, step) ==
    [x \in DOMAIN data |-> IF x < N - step THEN data[x + step] ELSE data[x]]

\* memset(&s->fft_data[fft_len - s->remaining_fill], 0, ...)
ZeroPad(data, N, fill) ==
    [x \in DOMAIN data |-> IF x >= N - fill THEN Zero ELSE data[x]]

\* while (s->remaining_fill < (fft_len >> 1))
DrainUntilEmpty(c) == c.remaining_fill < fft_len(c)
DrainInclusive(c) == c.remaining_fill <= fft_len(c) \div 2
DrainPending(c) == c.remaining_fill < fft_len(c) \div 2

\* s->remaining_fill += step
DrainAdvanceTwice(c, step) == c.remaining_fill + 2 * step
DrainAdvance(c, step) == c.remaining_fill + step

\* the drain of filter_frame(inlink, NULL)
RECURSIVE DrainLoop(_, _)
DrainLoop(m, step) ==
    LET c == m.s
        N == fft_len(c)
    IN IF DrainPending(c)
       THEN LET m1 == plot_cqt([m EXCEPT
                          !.s.fft_data = ZeroPad(c.fft_data, N, c.remaining_fill)])
            IN IF m1.ret < 0
               THEN [m1 EXCEPT !.drain = "failed"]
               ELSE DrainLoop([m1 EXCEPT
                        !.s.fft_data = ShiftWindow(@, N, step),
                        !.s.remaining_fill = DrainAdvance(m1.s, step),
                        !.drainEvals = @ + 1], step)
       ELSE [m EXCEPT !.ret = AVERROR_OF_STDIO_EOF, !.drain = "done"]

\* while (remaining) of filter_frame, on a frame of nb samples whose first
\* sample is stream sample first
RECURSIVE FeedLoop(_, _, _, _, _)
FeedLoop(m, step, nb, remaining, first) ==
    LET c == m.s
        N == fft_len(c)
        i == nb - remaining
        j == N - c.remaining_fill
    IN IF remaining = 0
       THEN [m EXCEPT !.ret = 0]
       ELSE IF remaining >= c.remaining_fill
       THEN LET m1 == plot_cqt([m EXCEPT !.s.fft_data =
                          CopySamples(c.fft_data, j, i, c.remaining_fill, first)])
            IN IF m1.ret < 0
               THEN m1
               ELSE FeedLoop([m1 EXCEPT
                        !.s.fft_data = ShiftWindow(@, N, step),
                        !.s.remaining_fill = step],
                        step, nb, remaining - c.remaining_fill, first)
       ELSE [m EXCEPT
               !.s.fft_data = CopySamples(c.fft_data, j, i, remaining, first),
               !.s.remaining_fill = @ - remaining,
               !.ret = 0]

\* filter_frame(inlink, insamples); insamples is NULL or a frame of
\* nb_samples samples, the next ones of the stream
filter_frame(m, r, nb_samples) ==
    LET step == Step(r, m.s)
    IN IF nb_samples = NULL
       THEN DrainLoop(m, step)
       ELSE FeedLoop([m EXCEPT !.fed = @ + nb_samples],
                     step, nb_samples, nb_samples, m.fed)

\* ------------------------------------------------------------ request_frame

\* do { ret = ff_request_frame(inlink); } while (!s->req_fullfilled && ret >= 0)
\* upstream[k] is what the k-th ff_request_frame does: it delivers a frame of
\* upstream[k] samples through filter_frame and returns what filter_frame
\* returned, or (NULL) it has no more frames and returns AVERROR_EOF.
RECURSIVE RequestLoop(_, _, _, _)
RequestLoop(m, r, upstream, k) ==
    LET m1 == IF upstream[k] = NULL
              THEN [m EXCEPT !.ret = AVERROR_EOF, !.eos = TRUE]
              ELSE filter_frame(m, r, upstream[k])
    IN IF m1.s.req_fullfilled = 0 /\ m1.ret >= 0 /\ k < Len(upstream)
       THEN RequestLoop(m1, r, upstream, k + 1)
       ELSE [m1 EXCEPT !.asked = k]

\* request_frame(outlink). The value filter_frame(inlink, NULL) returns is
\* dropped. The host takes a returned AVERROR_EOF as the end of the stream
\* (m.eof): it delivers no frame after it.
request_frame(m, r, upstream) ==
    LET m1 == RequestLoop([m EXCEPT !.s.req_fullfilled = 0], r, upstream, 1)
        ret == m1.ret
    IN IF ret = AVERROR_EOF /\ m1.s.outpicref
       THEN [filter_frame(m1, r, NULL) EXCEPT !.ret = ret, !.eof = TRUE]
       ELSE m1

\* ------------------------------------------------------------ the dual-real FFT

CAdd(a, b) == [re |-> a.re + b.re, im |-> a.im + b.im]
CMul(a, b) == [re |-> a.re * b.re - a.im * b.im, im |-> a.re * b.im + a.im * b.re]

\* exp(-2 pi i p / n) for n = 1, 2, 4: quarter turns
Twiddle(n, p) ==
    LET q == (p * (4 \div n)) % 4
    IN CASE q = 0 -> [re |-> 1, im |-> 0]
         [] q = 1 -> [re |-> 0, im |-> -1]
         [] q = 2 -> [re |-> -1, im |-> 0]
         [] q = 3 -> [re |-> 0, im |-> 1]

RECURSIVE DFTSum(_, _, _, _)
DFTSum(z, n, k, i) ==
    IF i = n THEN Zero
    ELSE CAdd(CMul(z[i], Twiddle(n, k * i)), DFTSum(z, n, k, i + 1))

\* av_fft_permute, av_fft_calc of a forward FFTContext: the length-n DFT
DFT(z, n) == [k \in 0..(n - 1) |-> DFTSum(z, n, k, 0)]

\* real part contains left samples, imaginary part contains right samples
Pack(l, r, n) == [x \in 0..(n - 1) |-> [re |-> l[x], im |-> r[x]]]

\* FFTSample tmpy = fft_result_left[fft_len-x].im - fft_result_left[x].im
TmpYSwapped(left, n, x) == left[x].im - left[n - x].im
TmpY(left, n, x) == left[n - x].im - left[x].im

\* the statements before the loop: bin 0
SeparateDC(b) ==
    LET right0 == [b.right EXCEPT ![0] = [re |-> 2 * b.left[0].im, im |-> 0]]
        left0 == [b.left EXCEPT ![0] = [re |-> 2 * b.left[0].re, im |-> 0]]
    IN [left |-> left0, right |-> right0]

\* one round of the loop, statement by statement on the two arrays
SeparateBin(b, n, x) ==
    LET tmpy == TmpY(b.left, n, x)
        r1 == [b.right EXCEPT ![x].re = b.left[x].im + b.left[n - x].im]
        r2 == [r1 EXCEPT ![x].im = b.left[x].re - b.left[n - x].re]
        r3 == [r2 EXCEPT ![n - x].re = r2[x].re]
        r4 == [r3 EXCEPT ![n - x].im = -r3[x].im]
        l1 == [b.left EXCEPT ![x].re = b.left[x].re + b.left[n - x].re]
        l2 == [l1 EXCEPT ![x].im = tmpy]
        l3 == [l2 EXCEPT ![n - x].re = l2[x].re]
        l4 == [l3 EXCEPT ![n - x].im = -l3[x].im]
    IN [left |-> l4, right |-> r4]

\* for (x = 1; x <= (fft_len >> 1); x++)
RECURSIVE SeparateLoop(_, _, _)
SeparateLoop(b, n, x) ==
    IF x <= n \div 2 THEN SeparateLoop(SeparateBin(b, n, x), n, x + 1) ELSE b

\* the head of plot_cqt: transform the window fft_data, then separate the
\* two channels; fft_result_right is written before it is read
SeparateChannels(fft_data, n) ==
    SeparateLoop(SeparateDC([left |-> DFT(fft_data, n),
                             right |-> [x \in 0..(n - 1) |-> Zero]]), n, 1)

\* ------------------------------------------------------------ config_output

\* the context as av_mallocz and the option parser leave it
NewContext(tc, fps, count) ==
    [fft_bits |-> 0, fft_data |-> <<>>, remaining_fill |-> 0,
     spectogram_count |-> 0, spectogram_index |-> 0, frame_count |-> 0,
     req_fullfilled |-> 0, outpicref |-> FALSE,
     timeclamp |-> tc, fps |-> fps, count |-> count]

\* config_output(outlink); alloc tells whether the allocations succeed
config_output(c, r, alloc) ==
    LET bits == FftBits(r, c.timeclamp)
        N == Pow2(bits)
        c1 == [c EXCEPT !.fft_bits = bits]
    IN IF NotDivisible(r, c.fps, c.count)
       THEN [s |-> c1, ret |-> AVERROR_EINVAL]
       ELSE IF ~alloc
       THEN [s |-> c1, ret |-> AVERROR_ENOMEM]
       ELSE [s |-> [c1 EXCEPT !.req_fullfilled = 0,
                              !.spectogram_index = 0,
                              !.frame_count = 0,
                              !.spectogram_count = 0,
                              !.remaining_fill = N \div 2,
                              !.fft_data = [x \in 0..(N - 1) |-> Zero],
                              !.outpicref = TRUE],
             ret |-> 0]

\* ------------------------------------------------------------ the machine

NoCall ==
    [entry |-> "none", ret |-> 0, derr |-> 0, errAt |-> 0, evalsEnd |-> 0,
     drain |-> "none", drainEvals |-> 0, eos |-> FALSE]

NoRoundTrip == [pc |-> "off", bits |-> 0, l |-> <<>>, r |-> <<>>,
                left |-> <<>>, right |-> <<>>]

NoKernel == [pc |-> "off"]

NoRing == [pc |-> "off"]

InitWith(Rates, Fps, Counts, Tcs) ==
    /\ rate \in Rates
    /\ \E tc \in Tcs, f \in Fps, n \in Counts : s = NewContext(tc, f, n)
    /\ pc = "init"
    /\ cfgRet = 0
    /\ fed = 0
    /\ eof = FALSE
    /\ evals = <<>>
    /\ sent = <<>>
    /\ lastCall = NoCall

\* the scheduler's configurations, scaled down
Init ==
    /\ InitWith(ScaledRates, ScaledFps, ScaledCounts, ScaledTimeClamps)
    /\ rt = NoRoundTrip
    /\ kn = NoKernel
    /\ sg = NoRing

\* the configurations the filter accepts
InitCfg ==
    /\ InitWith(SampleRates, FpsRange, CountRange, TimeClamps)
    /\ rt = NoRoundTrip
    /\ kn = NoKernel
    /\ sg = NoRing

ConfigOutput ==
    /\ pc = "init"
    /\ \E alloc \in BOOLEAN :
         LET res == config_output(s, rate, alloc)
         IN /\ s' = res.s
            /\ cfgRet' = res.ret
            /\ pc' = IF res.ret < 0 THEN "failed" ELSE "configured"
            /\ lastCall' = [NoCall EXCEPT !.entry = "config_output", !.ret = res.ret]
    /\ UNCHANGED <<rate, fed, eof, evals, sent, rt, kn, sg>>

Failures == Cardinality({i \in DOMAIN sent : sent[i].ret < 0})

NoFail == [failAt |-> 0, code |-> 0]

\* what the downstream may answer during a call of the host that hands it
\* n frames when none fails: every ff_filter_frame succeeds, or the
\* failAt-th fails with code
Downs(n) ==
    {NoFail} \cup
    (IF Failures < MaxFail THEN [failAt : 1..n, code : ErrCodes] ELSE {})

Run(down) ==
    [s |-> s, evals |-> evals, sent |-> sent, fed |-> fed, eof |-> eof,
     calls |-> 0, down |-> down, ret |-> 0, derr |-> 0, errAt |-> 0,
     drain |-> "none", drainEvals |-> 0, asked |-> 0, eos |-> FALSE]

\* the downstream's answer was used as given
DownUsed(m) == (m.down.failAt # 0) = (m.derr # 0)

Commit(m, entry) ==
    /\ s' = m.s
    /\ evals' = m.evals
    /\ sent' = m.sent
    /\ fed' = m.fed
    /\ eof' = m.eof
    /\ lastCall' = [entry |-> entry, ret |-> m.ret, derr |-> m.derr,
                    errAt |-> m.errAt, evalsEnd |-> Len(m.evals),
                    drain |-> m.drain, drainEvals |-> m.drainEvals,
                    eos |-> m.eos]
    /\ UNCHANGED <<rate, pc, cfgRet, rt, kn, sg>>

\* upstream pushes the next frame of the stream into filter_frame
FilterFrame ==
    /\ pc = "configured"
    /\ ~eof
    /\ \E nb \in 0..(MaxT - fed) :
         \E down \in Downs(filter_frame(Run(NoFail), rate, nb).calls) :
            LET m == filter_frame(Run(down), rate, nb)
            IN DownUsed(m) /\ Commit(m, "filter_frame")

\* what upstream does during one request_frame: it delivers at most n more
\* frames, of at most budget samples together, and may then be at the end
\* of the stream
RECURSIVE Upstreams(_, _)
Upstreams(n, budget) ==
    IF n = 0 THEN {<<>>}
    ELSE {<<>>, <<NULL>>} \cup
         UNION {{<<nb>> \o u : u \in Upstreams(n - 1, budget - nb)} : nb \in 0..budget}

\* the downstream asks for a frame
RequestFrame ==
    /\ pc = "configured"
    /\ \E upstream \in Upstreams(MaxReq, MaxT - fed) \ {<<>>} :
         /\ eof => upstream = <<NULL>>
         /\ \E down \in Downs(request_frame(Run(NoFail), rate, upstream).calls) :
            LET m == request_frame(Run(down), rate, upstream)
            IN /\ m.asked = Len(upstream)
               /\ m.s.req_fullfilled # 0 \/ m.ret < 0
               /\ DownUsed(m)
               /\ Commit(m, "request_frame")

Next == ConfigOutput \/ FilterFrame \/ RequestFrame

Spec == Init /\ [][Next]_vars

NextCfg == ConfigOutput

SpecCfg == InitCfg /\ [][NextCfg]_vars

\* the round trip: two real arrays of integers in the window of a filter
\* with the default options
Amplitudes == (0 - MaxAmp)..MaxAmp

InitFFT ==
    /\ InitWith({44100}, {25}, {6}, {17})
    /\ kn = NoKernel
    /\ sg = NoRing
    /\ \E bits \in RoundTripBits :
         \E l \in [0..(Pow2(bits) - 1) -> Amplitudes],
            r \in [0..(Pow2(bits) - 1) -> Amplitudes] :
            rt = [pc |-> "packed", bits |-> bits, l |-> l, r |-> r,
                  left |-> <<>>, right |-> <<>>]

Transform ==
    /\ rt.pc = "packed"
    /\ LET n == Pow2(rt.bits)
           b == SeparateChannels(Pack(rt.l, rt.r, n), n)
       IN rt' = [rt EXCEPT !.pc = "separated", !.left = b.left, !.right = b.right]
    /\ UNCHANGED <<rate, s, pc, cfgRet, fed, eof, evals, sent, lastCall, kn, sg>>

NextFFT == Transform

SpecFFT == InitFFT /\ [][NextFFT]_vars

\* ------------------------------------------------------------ the kernel

\* fabsf
Abs(v) == IF v < 0 THEN 0 - v ELSE v

\* the comparator compares signed values
qsort_sparsecoeffSigned(a, b) == IF a.value >= b.value THEN 1 ELSE -1

qsort_sparsecoeff(a, b) == IF Abs(a.value) >= Abs(b.value) THEN 1 ELSE -1

\* coeff_sort[x] = {fft_data[x].re, x}
FillCoeffSort(re, n) == [x \in 0..(n - 1) |-> [index |-> x, value |-> re[x]]]

\* AV_QSORT with qsort_sparsecoeff: the orders of p in which no element
\* compares greater than a later one; elements the comparator does not
\* separate come out in any order
AV_QSORT(p, num) ==
    LET Orders == {o \in [0..(num - 1) -> 0..(num - 1)] :
                      /\ \A i, j \in 0..(num - 1) : o[i] = o[j] => i = j
                      /\ \A i, j \in 0..(num - 1) :
                            i < j => qsort_sparsecoeff(p[o[j]], p[o[i]]) > 0}
    IN {[x \in 0..(num - 1) |-> p[o[x]]] : o \in Orders}

\* total += fabsf(coeff_sort[x].value), for x from x0 up
RECURSIVE Total(_, _, _)
Total(coeff_sort, x0, n) ==
    IF x0 >= n THEN 0
    ELSE Abs(coeff_sort[x0].value) + Total(coeff_sort, x0 + 1, n)

\* the cut is taken as soon as the partial sum reaches the threshold
OverClampInclusive(partial, total, coeffclamp) ==
    partial * coeffclamp.den * COEFF_CLAMP.den
        >= total * coeffclamp.num * COEFF_CLAMP.num

\* partial > total * coeffclamp * COEFF_CLAMP
OverClamp(partial, total, coeffclamp) ==
    partial * coeffclamp.den * COEFF_CLAMP.den
        > total * coeffclamp.num * COEFF_CLAMP.num

\* the loop that looks for the cut: the x it breaks at, or n when it runs out
RECURSIVE CutLoop(_, _, _, _, _, _)
CutLoop(coeff_sort, n, x, partial0, total, coeffclamp) ==
    IF x >= n THEN n
    ELSE LET partial == partial0 + Abs(coeff_sort[x].value)
         IN IF OverClamp(partial, total, coeffclamp) THEN x
            ELSE CutLoop(coeff_sort, n, x + 1, partial, total, coeffclamp)

\* one column of config_output's kernel loop after the FFT: the column's
\* coeffs_len and coeffs; coeffs_len keeps its value when the loop runs out
Sparsify(k, re, n, alloc) ==
    LET sorted == AV_QSORT(FillCoeffSort(re, n), n)
    IN {LET total == Total(coeff_sort, 0, n)
            x == CutLoop(coeff_sort, n, 0, 0, total, k.coeffclamp)
            len == IF x < n THEN n - x ELSE k.coeffs_len
        IN IF x < n /\ ~alloc
           THEN [k EXCEPT !.pc = "failed", !.ret = AVERROR_ENOMEM,
                          !.coeff_sort = coeff_sort, !.coeffs_len = len]
           ELSE [k EXCEPT !.pc = "sparse", !.coeff_sort = coeff_sort,
                          !.coeffs_len = len,
                          !.coeffs = [y \in 0..(len - 1) |-> coeff_sort[x + y]]]
        : coeff_sort \in sorted}

\* a column as the FFT leaves it: real parts that are not all zero (the
\* kernel's centre tap is positive), coeffs_len zeroed with the context
InitKernel ==
    /\ InitWith({44100}, {25}, {6}, {17})
    /\ rt = NoRoundTrip
    /\ sg = NoRing
    /\ \E bits \in KernelBits, coeffclamp \in CoeffClamps :
         \E re \in [0..(Pow2(bits) - 1) -> CoeffValues] :
            /\ \E x \in DOMAIN re : re[x] # 0
            /\ kn = [pc |-> "filled", n |-> Pow2(bits), re |-> re,
                     coeffclamp |-> coeffclamp, ret |-> 0, coeff_sort |-> <<>>,
                     coeffs_len |-> 0, coeffs |-> <<>>]

SparsifyColumn ==
    /\ kn.pc = "filled"
    /\ \E alloc \in BOOLEAN : kn' \in Sparsify(kn, kn.re, kn.n, alloc)
    /\ UNCHANGED <<rate, s, pc, cfgRet, fed, eof, evals, sent, lastCall, rt, sg>>

NextKernel == SparsifyColumn

SpecKernel == InitKernel /\ [][NextKernel]_vars

\* ------------------------------------------------------------ the ring

\* after config_output: the ring cleared, the counters at 0, a picture whose
\* lines are linesize bytes apart and whose bytes nothing has written yet
\* (-1); only the spectrogram's lines of the picture are kept
InitRing ==
    /\ InitWith({44100}, {25}, {6}, {17})
    /\ rt = NoRoundTrip
    /\ kn = NoKernel
    /\ \E count \in RingCounts, padding \in RingPaddings :
         LET linesize == RingWidth * 3 + padding
         IN sg = [pc |-> "run", width |-> RingWidth, linesize |-> linesize,
                  count |-> count,
                  spectogram |->
                      [i \in 0..(SPECTOGRAM_HEIGHT * RingWidth * 3 - 1) |-> 0],
                  spectogram_index |-> 0, spectogram_count |-> 0,
                  frame_count |-> 0,
                  data |-> [i \in (SPECTOGRAM_START * linesize)
                                    ..(VIDEO_HEIGHT * linesize - 1) |-> 0 - 1],
                  emitted |-> FALSE, nevals |-> 0, rows |-> <<>>]

PlotCqt ==
    /\ sg.pc = "run"
    /\ sg.nevals < MaxRingEvals
    /\ sg' = PlotRing(sg)
    /\ UNCHANGED <<rate, s, pc, cfgRet, fed, eof, evals, sent, lastCall, rt, kn>>

NextRing == PlotCqt

SpecRing == InitRing /\ [][NextRing]_vars

\* ------------------------------------------------------------ properties

N == fft_len(s)
step == Step(rate, s)
Configured == pc = "configured"
Ceil(a, b) == (a + b - 1) \div b
Max(a, b) == IF a >= b THEN a ELSE b

\* the drain of the last call ran until its loop stopped
DrainDone == Configured /\ lastCall.drain = "done"

\* upstream was at the end of the stream and the drain ran until its loop
\* stopped
StreamDrained == DrainDone /\ lastCall.eos

\* what a window slot holds when it holds stream position p
StreamSlot(p) ==
    IF p >= 0 /\ p < fed THEN [re |-> 2 * p + 1, im |-> 2 * p + 2] ELSE Zero

\* C1: with no downstream failure the j-th evaluation (j = 0, 1, ...) runs
\* on the window of stream positions [N/2 + j*step - N, N/2 + j*step), left
\* sample in the real part and right sample in the imaginary part, zero
\* before the start and past the end of the stream, however the stream is
\* split into frames.
C1_WindowsInSampleOrder ==
    (Configured /\ Failures = 0) =>
        \A j \in 1..Len(evals) : \A x \in 0..(N - 1) :
            evals[j].window[x] = StreamSlot(N \div 2 + (j - 1) * step - N + x)

\* evaluations fired by frames and by the drain, windows that overlap the
\* start and the end of the stream
C1_Witness ==
    /\ Configured /\ Failures = 0 /\ step >= 2
    /\ lastCall.drain = "done" /\ lastCall.drainEvals >= 1
    /\ Len(evals) >= lastCall.drainEvals + 2

C3_FirstFrameAtCountTh ==
    Configured =>
        \A j \in 1..Len(evals) :
            /\ j < s.count => ~evals[j].emitted
            /\ j = s.count => evals[j].emitted /\ evals[j].pts = 0

\* C3 amended: the first evaluation emits frame 0, the next count-1 emit no
\* frame: evaluation j (from 1) emits exactly when (j-1) mod count = 0.
C3_FirstFrameAtFirst ==
    Configured =>
        \A j \in 1..Len(evals) :
            /\ evals[j].emitted = ((j - 1) % s.count = 0)
            /\ j = 1 => evals[j].pts = 0

C3_Witness ==
    Configured /\ s.count >= 2 /\ Len(evals) >= s.count + 1

\* C4: frame_count is the number of frames handed downstream, and the n-th
\* of them carries PTS n-1.
C4_FrameCountAndPts ==
    /\ s.frame_count = Len(sent)
    /\ \A n \in 1..Len(sent) : sent[n].pts = n - 1

C4_Witness == Configured /\ Len(sent) >= 3 /\ Failures >= 1

\* C5 as stated: remaining_fill is in [0, N/2] between the calls, and it is
\* 0 whenever an evaluation fires.
C5_FillWithinHalf ==
    Configured =>
        /\ s.remaining_fill \in 0..(N \div 2)
        /\ \A j \in 1..Len(evals) : evals[j].fill = 0

\* C5 amended: between the calls remaining_fill is in [1, max(N/2, step)]
\* before the end of the stream and in [1, N/2 + step - 1] after the drain;
\* when an evaluation fires the field still holds the number of slots that
\* were just filled, in [1, max(N/2, step)].
C5_FillBounds ==
    Configured =>
        /\ s.remaining_fill >= 1
        /\ s.remaining_fill <= N \div 2 + step - 1
        /\ ~eof => s.remaining_fill <= Max(N \div 2, step)
        /\ \A j \in 1..Len(evals) :
              evals[j].fill >= 1 /\ evals[j].fill <= Max(N \div 2, step)

C5_Witness ==
    /\ DrainDone /\ lastCall.drainEvals >= 1
    /\ s.remaining_fill > N \div 2
    /\ \E j \in 1..Len(evals) : evals[j].fill = step

\* C6 as stated: when the drain loop stops, the window holds no real input
\* sample any more.
C6_DrainEmptiesWindow ==
    DrainDone =>
        \A x \in 0..(N - s.remaining_fill - 1) : s.fft_data[x] = Zero

\* C6 amended: the drain stops exactly when remaining_fill has reached N/2:
\* the end of the stream is then at or left of the centre of the next
\* window, which can still hold real samples in its first half.
C6_DrainStopsAtCentre ==
    DrainDone =>
        /\ s.remaining_fill >= N \div 2
        /\ lastCall.drainEvals >= 1 => s.remaining_fill - step < N \div 2
        /\ Failures = 0 =>
              /\ Len(evals) * step >= fed
              /\ lastCall.drainEvals >= 1 => (Len(evals) - 1) * step < fed

C6_Witness ==
    /\ DrainDone /\ lastCall.drainEvals >= 2
    /\ \E x \in 0..(N - s.remaining_fill - 1) : s.fft_data[x] # Zero

\* C7: config_output fails with AVERROR(EINVAL) exactly when rate is no
\* exact multiple of fps*count; otherwise step*fps*count = rate, and step
\* is 294 for 44100/25/6 and 320 for 48000/25/6.
C7_DivisibilityCheck ==
    pc # "init" =>
        LET d == s.fps * s.count
            multiple == (rate \div d) * d = rate
        IN /\ (cfgRet = AVERROR_EINVAL) = ~multiple
           /\ multiple => step * s.fps * s.count = rate
           /\ (rate = 44100 /\ s.fps = 25 /\ s.count = 6) => step = 294
           /\ (rate = 48000 /\ s.fps = 25 /\ s.count = 6) => step = 320

C7_Witness ==
    /\ Configured /\ cfgRet = 0
    /\ rate = 44100 /\ s.fps = 25 /\ s.count = 6 /\ step = 294

\* C8 as stated: with rate 44100, fps 30, count 6 config_output fails the
\* divisibility check.
C8_Fps30Count6Rejected ==
    (pc # "init" /\ rate = 44100 /\ s.fps = 30 /\ s.count = 6) =>
        cfgRet = AVERROR_EINVAL

\* C8 amended: with rate 44100, fps 30, count 6 the divisibility check
\* passes (44100 = 245 * 180) and step is 245; with count 8 it fails.
C8_Fps30Count6Accepted ==
    /\ (pc # "init" /\ rate = 44100 /\ s.fps = 30 /\ s.count = 6) =>
          /\ cfgRet # AVERROR_EINVAL
          /\ step = 245 /\ step * 30 * 6 = rate
          /\ cfgRet = 0 => Configured
    /\ (pc # "init" /\ rate = 44100 /\ s.fps = 30 /\ s.count = 8) =>
          cfgRet = AVERROR_EINVAL /\ pc = "failed"

C8_Witness ==
    Configured /\ cfgRet = 0 /\ rate = 44100 /\ s.fps = 30 /\ s.count = 6

\* C9: when ff_filter_frame fails during an evaluation, the entry point the
\* host called returns that code and runs no further evaluation.
C9_FailurePropagated ==
    lastCall.derr < 0 =>
        /\ lastCall.ret = lastCall.derr
        /\ lastCall.evalsEnd = lastCall.errAt

\* the DFT of a real array
RealDFT(a, n) == DFT([x \in 0..(n - 1) |-> [re |-> a[x], im |-> 0]], n)

Conj(z) == [re |-> z.re, im |-> 0 - z.im]
Twice(z) == [re |-> 2 * z.re, im |-> 2 * z.im]

\* C10 as stated: after the unpacking, fft_result_left is the DFT of the
\* left array and fft_result_right the DFT of the right array.
C10_RoundTripIsDFT ==
    rt.pc = "separated" =>
        LET n == Pow2(rt.bits)
        IN \A x \in 0..(n - 1) :
              /\ rt.left[x] = RealDFT(rt.l, n)[x]
              /\ rt.right[x] = RealDFT(rt.r, n)[x]

\* C10 amended: fft_result_left[x] is twice the conjugate of DFT(l)[x] and
\* fft_result_right[x] twice the conjugate of DFT(r)[x] (which, the arrays
\* being real, is twice the DFT at bin N-x).
C10_RoundTripIsTwiceConjDFT ==
    rt.pc = "separated" =>
        LET n == Pow2(rt.bits)
        IN \A x \in 0..(n - 1) :
              /\ rt.left[x] = Twice(Conj(RealDFT(rt.l, n)[x]))
              /\ rt.right[x] = Twice(Conj(RealDFT(rt.r, n)[x]))
              /\ rt.left[x] = Twice(RealDFT(rt.l, n)[(n - x) % n])
              /\ rt.right[x] = Twice(RealDFT(rt.r, n)[(n - x) % n])

\* a spectrum with an imaginary part in both channels
C10_Witness ==
    /\ rt.pc = "separated" /\ rt.bits = 2
    /\ rt.left[1].im # 0 /\ rt.right[1].im # 0
    /\ rt.left[1] # rt.right[1]

\* the sum of |re[x]| over the bins in S
RECURSIVE SumAbsOver(_, _)
SumAbsOver(re, S) ==
    IF S = {} THEN 0
    ELSE LET x == CHOOSE x \in S : TRUE
         IN Abs(re[x]) + SumAbsOver(re, S \ {x})

Kept == {kn.coeffs[y].index : y \in DOMAIN kn.coeffs}
Discarded == (0..(kn.n - 1)) \ Kept
\* a sum is within the clamp: sum <= coeffclamp * 1e-4 * (sum of all)
WithinClamp(sum) ==
    sum * kn.coeffclamp.den * 10000
        <= SumAbsOver(kn.re, 0..(kn.n - 1)) * kn.coeffclamp.num

\* C11: a sparsified column keeps the coefficients of a suffix of the order of
\* ascending absolute value (kept entries ascend, no discarded one exceeds a
\* kept one), each kept entry with its own bin index and that bin's value;
\* the discarded absolute values sum to at most coeffclamp * 1e-4 * the sum
\* of all, and adding the first kept entry's would exceed that.
C11_KeepsMinimalSuffix ==
    kn.pc = "sparse" =>
        /\ DOMAIN kn.coeffs = 0..(kn.coeffs_len - 1)
        /\ \A y, z \in DOMAIN kn.coeffs :
              /\ kn.coeffs[y].index = kn.coeffs[z].index => y = z
              /\ y < z => Abs(kn.coeffs[y].value) <= Abs(kn.coeffs[z].value)
        /\ \A y \in DOMAIN kn.coeffs :
              /\ kn.coeffs[y].index \in 0..(kn.n - 1)
              /\ kn.coeffs[y].value = kn.re[kn.coeffs[y].index]
        /\ \A d \in Discarded, y \in DOMAIN kn.coeffs :
              Abs(kn.re[d]) <= Abs(kn.coeffs[y].value)
        /\ \A x, z \in 0..(kn.n - 1) :
              x < z => Abs(kn.coeff_sort[x].value) <= Abs(kn.coeff_sort[z].value)
        /\ WithinClamp(SumAbsOver(kn.re, Discarded))
        /\ kn.coeffs_len > 0 =>
              ~WithinClamp(SumAbsOver(kn.re, Discarded) + Abs(kn.coeffs[0].value))

\* a column from which a nonzero prefix was discarded, with the discarded
\* sum exactly at the threshold
C11_Witness ==
    /\ kn.pc = "sparse"
    /\ kn.coeffs_len > 0
    /\ \E d \in Discarded : kn.re[d] # 0
    /\ SumAbsOver(kn.re, Discarded) * kn.coeffclamp.den * 10000
          = SumAbsOver(kn.re, 0..(kn.n - 1)) * kn.coeffclamp.num

\* the bytes of line SPECTOGRAM_START + y of the picture that belong to pixels
PictureRow(y) ==
    [b \in 0..(sg.width * 3 - 1) |->
        sg.data[(SPECTOGRAM_START + y) * sg.linesize + b]]
BlackRow == [b \in 0..(sg.width * 3 - 1) |-> 0]

\* C12: after any number of evaluations spectogram_index is in
\* [0, SPECTOGRAM_HEIGHT) and spectogram_count in [0, count); in the picture
\* of an evaluation that hands a frame on, row y of the spectrogram is the
\* colour row of the evaluation y evaluations earlier, and black when fewer
\* than y + 1 evaluations have run, whichever of the two copy paths drew it.
C12_RowsByAge ==
    sg.pc = "run" =>
        /\ sg.spectogram_index \in 0..(SPECTOGRAM_HEIGHT - 1)
        /\ sg.spectogram_count \in 0..(sg.count - 1)
        /\ sg.emitted =>
              \A y \in 0..(SPECTOGRAM_HEIGHT - 1) :
                 PictureRow(y) = IF y < sg.nevals THEN sg.rows[sg.nevals - y]
                                 ELSE BlackRow

\* a frame drawn by the two block copies (the index it was drawn at, one
\* above the current one, is not 0) after the ring has gone round
C12_Witness ==
    /\ sg.pc = "run"
    /\ sg.emitted
    /\ sg.linesize = sg.width * 3
    /\ sg.nevals > SPECTOGRAM_HEIGHT + 1
    /\ (sg.spectogram_index + 1) % SPECTOGRAM_HEIGHT # 0

====
